---- MODULE Spec2Model ----
(***************************************************************************)
(* Model of the two batch utilities of the repository:                     *)
(*   excel_dvs_data.py  run-change detection / run-relative normalisation  *)
(*                      of the sheets of a workbook                        *)
(*   mask_area.py       mask images -> measurement records -> sorted CSVs  *)
(*                                                                         *)
(* A pandas cell is a record [k, v]: k is "num" (the number v), "str"      *)
(* (non-numeric text number v), "numstr" (text that parses as the number   *)
(* v) or "nan" (missing).  A DataFrame is [n, columns, data]: n rows, the  *)
(* ordered column names, and one sequence of n cells per column name.      *)
(***************************************************************************)
EXTENDS Integers, Sequences, FiniteSets, TLC

VARIABLES
    df,      \* the table being transformed
    df0,     \* the table as it was handed in
    pc,      \* the position in the program
    psc,     \* pressure_solvent_column
    result,  \* what check_for_needed_columns returned and logged
    pos,     \* the index of the sheet / subdirectory the loop is at
    log,     \* the skip messages written so far
    workbook,      \* src_workbook: the sheets read, in order
    dst,           \* the sheets written to dst_workbook, in order
    saved,         \* dst_workbook was closed (saved)
    force_update,  \* create_csvs' argument
    sub,           \* the subdirectory being processed by create_csvs: which of its
                   \* CSVs are files, whether it holds images, and the images
                   \* of its listing that the loop has reached
    img,           \* the number of its images scanned so far
    data,          \* the measurement records collected from them
    out            \* the CSVs written for it

vars == <<df, df0, pc, psc, result, pos, log, workbook, dst, saved,
          force_update, sub, img, data, out>>

tableVars == <<df, df0, psc, result>>

sheetVars == <<workbook, dst, saved>>

maskVars == <<force_update, sub, img, data, out>>

batchVars == <<pos, log, workbook, dst, saved, force_update, sub, img, data, out>>

NoSub == [grid_is_file |-> FALSE, full_is_file |-> FALSE, has_images |-> FALSE, image_paths |-> <<>>]

NoOut == [grid |-> <<>>, full |-> <<>>]

\* the values of the variables a specification does not use
SheetIdle == workbook = <<>> /\ dst = <<>> /\ saved = FALSE

MaskIdle == force_update = FALSE /\ sub = NoSub /\ img = 0 /\ data = <<>> /\ out = NoOut

BatchIdle == pos = 0 /\ log = <<>> /\ SheetIdle /\ MaskIdle

NoResult == [ok |-> FALSE, kind |-> "none", column |-> ""]

----------------------------------------------------------------------------
(* Cells *)

NaN == [k |-> "nan", v |-> 0]

Num(n) == [k |-> "num", v |-> n]

Str(i) == [k |-> "str", v |-> i]

NumStr(n) == [k |-> "numstr", v |-> n]

\* pandas isna / notna of one cell
isna(x) == x.k = "nan"

notna(x) == ~isna(x)

----------------------------------------------------------------------------
(* DataFrame primitives *)

EmptyDf(n) == [n |-> n, columns |-> <<>>, data |-> <<>>]

HasColumn(d, name) == \E i \in 1..Len(d.columns) : d.columns[i] = name

\* d[name]
Col(d, name) == d.data[name]

\* d[name] = vals : an existing column keeps its position, a new one is appended
SetColumn(d, name, vals) ==
    IF HasColumn(d, name)
    THEN [d EXCEPT !.data = [c \in DOMAIN d.data |-> IF c = name THEN vals ELSE d.data[c]]]
    ELSE [d EXCEPT !.columns = Append(d.columns, name),
                   !.data = [c \in (DOMAIN d.data) \cup {name} |->
                                IF c = name THEN vals ELSE d.data[c]]]

\* d.drop(columns=[name], inplace=True)
DropColumn(d, name) ==
    [d EXCEPT !.columns = SelectSeq(d.columns, LAMBDA c : c # name),
              !.data = [c \in (DOMAIN d.data) \ {name} |-> d.data[c]]]

----------------------------------------------------------------------------
(* add_change_column *)

\* Series.shift(): every value moves one row down, row 0 is filled with NaN
shift(s) == [i \in 1..Len(s) |-> IF i = 1 THEN NaN ELSE s[i - 1]]

\* mutant: a missing value compares equal to a missing value
NeMissingEqual(x, y) == x # y

\* elementwise != of two cells: a missing operand makes the cells differ
Ne(x, y) == isna(x) \/ isna(y) \/ x # y

ne_series(a, b) == [i \in 1..Len(a) |-> Ne(a[i], b[i])]

RECURSIVE CountTrue(_, _)
CountTrue(b, i) == IF i = 0 THEN 0 ELSE CountTrue(b, i - 1) + (IF b[i] THEN 1 ELSE 0)

\* mutant: the running count starts from row 1 instead of row 0
cumsumSkipFirst(b) == [i \in 1..Len(b) |-> Num(CountTrue(b, i) - (IF Len(b) > 0 /\ b[1] THEN 1 ELSE 0))]

\* Series.cumsum() of a boolean series
cumsum(b) == [i \in 1..Len(b) |-> Num(CountTrue(b, i))]

add_change_column(d, target_column, new_column_name) ==
    SetColumn(d, new_column_name,
              cumsum(ne_series(Col(d, target_column), shift(Col(d, target_column)))))

----------------------------------------------------------------------------
(* add_normalised_column *)

Min(S) == CHOOSE x \in S : \A y \in S : x <= y

\* mutant: the last non-missing value of the group
GroupLast(keys, vals, i) ==
    LET rows == {j \in 1..Len(keys) : keys[j] = keys[i] /\ notna(vals[j])}
    IN  IF isna(keys[i]) \/ rows = {} THEN NaN
        ELSE vals[CHOOSE j \in rows : \A m \in rows : m <= j]

\* groupby(keys)[vals].transform("first") at row i: the first NON-MISSING value
\* of the group of row i (GroupBy.first skips missing values), NaN when the
\* group has none; rows with a missing key belong to no group
GroupFirst(keys, vals, i) ==
    LET rows == {j \in 1..Len(keys) : keys[j] = keys[i] /\ notna(vals[j])}
    IN  IF isna(keys[i]) \/ rows = {} THEN NaN ELSE vals[Min(rows)]

transform_first(keys, vals) == [i \in 1..Len(keys) |-> GroupFirst(keys, vals, i)]

\* x - y of two cells: missing propagates
Sub(x, y) == IF isna(x) \/ isna(y) THEN NaN ELSE Num(x.v - y.v)

\* the subtraction raises TypeError when a text cell takes part in it
SubRaises(a, b) == \E i \in 1..Len(a) : a[i].k \in {"str", "numstr"} \/ b[i].k \in {"str", "numstr"}

at_change(target_column) == target_column \o "_at_change"

new_name(new_column_name) == new_column_name \o " NEW"

\* the table after line 50
add_at_change(d, grouping_column, target_column) ==
    SetColumn(d, at_change(target_column),
              transform_first(Col(d, grouping_column), Col(d, target_column)))

normalised_raises(d, grouping_column, target_column) ==
    LET d1 == add_at_change(d, grouping_column, target_column)
    IN  SubRaises(Col(d1, target_column), Col(d1, at_change(target_column)))

add_normalised_column(d, grouping_column, target_column, new_column_name) ==
    LET d1 == add_at_change(d, grouping_column, target_column)
        d2 == SetColumn(d1, new_name(new_column_name),
                        [i \in 1..d1.n |-> Sub(Col(d1, target_column)[i],
                                               Col(d1, at_change(target_column))[i])])
    IN  DropColumn(d2, at_change(target_column))

----------------------------------------------------------------------------
(* The two transforms applied to one grouping column G and one target      *)
(* column T, for every table of up to MaxLen rows.                         *)

MaxLen == 4

GroupValues == {Str(0), Str(1), NaN}

TargetValues == {Num(1), Num(2), NaN}

FnTable(g, t) ==
    [n |-> Len(g), columns |-> <<"G", "T">>,
     data |-> [c \in {"G", "T"} |-> IF c = "G" THEN g ELSE t]]

FnInit ==
    /\ \E n \in 0..MaxLen :
          \E g \in [1..n -> GroupValues], t \in [1..n -> TargetValues] :
              df0 = FnTable(g, t)
    /\ df = df0
    /\ pc = "start"
    /\ psc = ""
    /\ result = NoResult
    /\ BatchIdle

Detect ==
    /\ pc = "start"
    /\ df' = add_change_column(df, "G", "Run")
    /\ pc' = "detected"
    /\ UNCHANGED <<df0, psc, result, batchVars>>

Normalise ==
    /\ pc = "detected"
    /\ ~normalised_raises(df, "Run", "T")
    /\ df' = add_normalised_column(df, "Run", "T", "T")
    /\ pc' = "normalised"
    /\ UNCHANGED <<df0, psc, result, batchVars>>

Redetect ==
    /\ pc = "normalised"
    /\ df' = add_change_column(df, "Run", "Run2")
    /\ pc' = "redetected"
    /\ UNCHANGED <<df0, psc, result, batchVars>>

FnNext == Detect \/ Normalise \/ Redetect

SpecFn == FnInit /\ [][FnNext]_vars

----------------------------------------------------------------------------
(* Properties of the two transforms (SpecFn) *)

G0 == Col(df0, "G")

T0 == Col(df0, "T")

RunIds == Col(df, "Run")

\* the first row of the run that holds row i
RunStart(ids, i) == Min({j \in 1..Len(ids) : ids[j] = ids[i]})

NumRuns(ids) == Cardinality({ids[i] : i \in 1..Len(ids)})

\* row i holds a value different from row i-1's, a missing value being
\* different from every value
Differs(g, i) == g[i].k = "nan" \/ g[i - 1].k = "nan" \/ g[i] # g[i - 1]

\* C1: add_change_column gives row 0 the run id 1 and every later row the id
\* of the row before it, plus 1 when its value differs from that row's (a
\* missing value differs from every value, a missing one included), plus 0
\* otherwise; so the ids start at 1, never decrease, step by 0 or 1 and leave
\* no gap.
C1_RunIds ==
    pc # "start" =>
        /\ Len(RunIds) = df0.n
        /\ df0.n > 0 => RunIds[1] = Num(1)
        /\ \A i \in 2..df0.n :
              /\ RunIds[i].k = "num"
              /\ RunIds[i].v = RunIds[i - 1].v + (IF Differs(G0, i) THEN 1 ELSE 0)
              /\ RunIds[i].v - RunIds[i - 1].v \in {0, 1}
        /\ df0.n > 0 => {RunIds[i].v : i \in 1..df0.n} = 1..RunIds[df0.n].v
        /\ \A i \in 2..df0.n : isna(G0[i]) /\ isna(G0[i - 1]) => RunIds[i].v = RunIds[i - 1].v + 1

\* A,A,B,A gives 1,1,2,3
C1_Witness ==
    /\ pc = "detected"
    /\ G0 = <<Str(0), Str(0), Str(1), Str(0)>>
    /\ RunIds = <<Num(1), Num(1), Num(2), Num(3)>>

\* C2: after add_normalised_column with the run ids as grouping column, in
\* every run whose first target value is present the new column is exactly 0
\* at the run's first row and target[i] - target[first row of the run] at
\* every other row (missing when target[i] is missing).
C2_Normalised ==
    pc \in {"normalised", "redetected"} =>
        /\ HasColumn(df, "T NEW")
        /\ \A i \in 1..df0.n :
              LET f == RunStart(RunIds, i)
              IN  notna(T0[f]) =>
                     /\ Col(df, "T NEW")[f] = Num(0)
                     /\ Col(df, "T NEW")[i] =
                           (IF isna(T0[i]) THEN NaN ELSE Num(T0[i].v - T0[f].v))

\* a run of two rows with targets 1, 2 is normalised to 0, 1
C2_Witness ==
    /\ pc = "normalised"
    /\ df0.n >= 2
    /\ RunIds[1] = RunIds[2]
    /\ T0[1] = Num(1) /\ T0[2] = Num(2)
    /\ Col(df, "T NEW")[1] = Num(0) /\ Col(df, "T NEW")[2] = Num(1)

\* C3: when the target value at the first row of a run is missing, every
\* normalised value of that run is missing.
C3_MissingAnchor ==
    pc \in {"normalised", "redetected"} =>
        \A i \in 1..df0.n :
            isna(T0[RunStart(RunIds, i)]) => isna(Col(df, "T NEW")[i])

\* C6 as stated: re-applying the detector to the run ids of N rows gives N runs.
C6_OneRunPerRow ==
    pc = "redetected" => NumRuns(Col(df, "Run2")) = df0.n

\* C6, amended: re-applying the detector to the run ids gives the same run ids
\* again, so as many runs as the first pass found; that is N runs exactly when
\* every row differed from the row before it.
C6_SameRuns ==
    pc = "redetected" =>
        /\ Col(df, "Run2") = RunIds
        /\ NumRuns(Col(df, "Run2")) = NumRuns(RunIds)
        /\ NumRuns(Col(df, "Run2")) <= df0.n
        /\ NumRuns(Col(df, "Run2")) = df0.n <=> \A i \in 2..df0.n : Differs(G0, i)

\* A,A,B,A re-detected: still 1,1,2,3, three runs for four rows
C6_Witness ==
    /\ pc = "redetected"
    /\ G0 = <<Str(0), Str(0), Str(1), Str(0)>>
    /\ Col(df, "Run2") = <<Num(1), Num(1), Num(2), Num(3)>>

----------------------------------------------------------------------------
(* solvent_a_or_b and check_for_needed_columns *)

TimeColumn == "Time [minutes]"

MoistureColumn == "Moisture content %"

DirectionColumn == "RH Direction"

SolventA == "Target Partial Pressure (Solvent A) [%]"

SolventB == "Target Partial Pressure (Solvent B) [%]"

SolventAorB == "Target Partial Pressure (Solvent A or B)"

\* mutant: Solvent B is probed before Solvent A
solvent_b_or_a(d) ==
    IF HasColumn(d, SolventB) THEN SolventB
    ELSE IF HasColumn(d, SolventA) THEN SolventA
    ELSE SolventAorB

solvent_a_or_b(d) ==
    IF HasColumn(d, SolventA) THEN SolventA
    ELSE IF HasColumn(d, SolventB) THEN SolventB
    ELSE SolventAorB

needed_columns(pressure_solvent_column) ==
    <<TimeColumn, MoistureColumn, DirectionColumn, pressure_solvent_column>>

\* df[column].notna().any()
notna_any(s) == \E i \in 1..Len(s) : notna(s[i])

\* the loop of check_for_needed_columns from the i-th needed column on: the
\* value returned, with the kind and column of the error that was logged
RECURSIVE check_from(_, _, _)
check_from(d, needed, i) ==
    IF i > Len(needed) THEN [ok |-> TRUE, kind |-> "none", column |-> ""]
    ELSE IF HasColumn(d, needed[i])
         THEN IF ~notna_any(Col(d, needed[i]))
              THEN [ok |-> FALSE, kind |-> "full of NaN", column |-> needed[i]]
              ELSE check_from(d, needed, i + 1)
         ELSE [ok |-> FALSE, kind |-> "does not exist", column |-> needed[i]]

check_for_needed_columns(d, pressure_solvent_column) ==
    check_from(d, needed_columns(pressure_solvent_column), 1)

----------------------------------------------------------------------------
(* The availability check on every table of up to MaxCheckRows rows whose  *)
(* columns are any of the five named columns and the placeholder name.     *)

MaxCheckRows == 2

CheckColumns == <<TimeColumn, MoistureColumn, DirectionColumn, SolventA, SolventB, SolventAorB>>

CheckValues == {Num(1), NaN}

\* the table of n rows holding the columns of `present`, in the order of CheckColumns
CheckTable(n, present, content) ==
    [n |-> n,
     columns |-> SelectSeq(CheckColumns, LAMBDA c : c \in present),
     data |-> [c \in present |-> content[c]]]

CheckInit ==
    /\ \E n \in 0..MaxCheckRows :
          \E present \in SUBSET {CheckColumns[i] : i \in 1..Len(CheckColumns)} :
              \E content \in [present -> [1..n -> CheckValues]] :
                  df0 = CheckTable(n, present, content)
    /\ df = df0
    /\ pc = "start"
    /\ psc = ""
    /\ result = NoResult
    /\ BatchIdle

ResolveSolvent ==
    /\ pc = "start"
    /\ psc' = solvent_a_or_b(df)
    /\ pc' = "resolved"
    /\ UNCHANGED <<df, df0, result, batchVars>>

CheckColumnsStep ==
    /\ pc = "resolved"
    /\ result' = check_for_needed_columns(df, psc)
    /\ pc' = "checked"
    /\ UNCHANGED <<df, df0, psc, batchVars>>

CheckNext == ResolveSolvent \/ CheckColumnsStep

SpecCheck == CheckInit /\ [][CheckNext]_vars

\* column c is in table d and holds at least one non-missing value
Usable(d, c) == HasColumn(d, c) /\ \E i \in 1..d.n : d.data[c][i].k # "nan"

\* the pressure column the claim names: Solvent A if present, else Solvent B
\* if present; <<>> when neither exists
ClaimedPressure(d) ==
    IF HasColumn(d, SolventA) THEN <<SolventA>>
    ELSE IF HasColumn(d, SolventB) THEN <<SolventB>> ELSE <<>>

\* C4 as stated: the check passes iff the three fixed columns and the
\* resolved solvent column are present with a non-missing value, and a table
\* with neither solvent column fails with the message naming both candidates.
C4_AsStated ==
    pc = "checked" =>
        /\ result.ok <=>
              /\ ClaimedPressure(df0) # <<>>
              /\ \A c \in {TimeColumn, MoistureColumn, DirectionColumn, ClaimedPressure(df0)[1]} :
                    Usable(df0, c)
        /\ ClaimedPressure(df0) = <<>> => ~result.ok /\ result.column = SolventAorB

C4_Required(d) ==
    <<TimeColumn, MoistureColumn, DirectionColumn,
      IF ClaimedPressure(d) # <<>> THEN ClaimedPressure(d)[1] ELSE SolventAorB>>

\* C4, amended: with the pressure column resolved as Solvent A if present,
\* else Solvent B if present, else the placeholder name 'Target Partial
\* Pressure (Solvent A or B)', the check passes iff each of the four columns
\* is present with a non-missing value; when it fails, the reason is the one
\* of the first failing column in the order Time, Moisture, RH Direction,
\* pressure: 'does not exist' for an absent column, 'full of NaN' for an
\* all-missing one; so the message names both solvent candidates only when
\* the three fixed columns pass and no column bears the placeholder name.
C4_Availability ==
    pc = "checked" =>
        LET req == C4_Required(df0)
            bad == {i \in 1..4 : ~Usable(df0, req[i])}
        IN  /\ psc = req[4]
            /\ result.ok <=> bad = {}
            /\ bad # {} =>
                  /\ result.column = req[Min(bad)]
                  /\ result.kind = (IF HasColumn(df0, req[Min(bad)])
                                    THEN "full of NaN" ELSE "does not exist")
            /\ (/\ ClaimedPressure(df0) = <<>>
                /\ ~HasColumn(df0, SolventAorB)
                /\ \A i \in 1..3 : Usable(df0, req[i]))
                  => ~result.ok /\ result.kind = "does not exist" /\ result.column = SolventAorB

\* a table whose Solvent A column is all missing while Solvent B holds data
\* fails on Solvent A as full of NaN
C4_Witness ==
    /\ pc = "checked"
    /\ Usable(df0, TimeColumn) /\ Usable(df0, MoistureColumn) /\ Usable(df0, DirectionColumn)
    /\ HasColumn(df0, SolventA) /\ ~Usable(df0, SolventA) /\ Usable(df0, SolventB)
    /\ df0.n = 2
    /\ result = [ok |-> FALSE, kind |-> "full of NaN", column |-> SolventA]

----------------------------------------------------------------------------
(* add_pressure_change_columns, add_direction_change_columns,              *)
(* calculate_and_add_columns                                               *)

PressureChange == "Pressure Change"

DirectionChange == "Direction Change"

NormTimeSteps == "Normalised time (Individual RH Steps)"

NormMoisture == "Normalised moisture content per RH step"

NormTimeRamps == "Normalised time (up vs down RH ramps)"

add_pressure_change_columns(d, pressure_solvent_column) ==
    LET d1 == add_change_column(d, pressure_solvent_column, PressureChange)
        d2 == add_normalised_column(d1, PressureChange, TimeColumn, NormTimeSteps)
        d3 == add_normalised_column(d2, PressureChange, MoistureColumn, NormMoisture)
    IN  DropColumn(d3, PressureChange)

\* one of the two subtractions of add_pressure_change_columns raises
pressure_change_raises(d, pressure_solvent_column) ==
    LET d1 == add_change_column(d, pressure_solvent_column, PressureChange)
    IN  \/ normalised_raises(d1, PressureChange, TimeColumn)
        \/ normalised_raises(add_normalised_column(d1, PressureChange, TimeColumn, NormTimeSteps),
                             PressureChange, MoistureColumn)

add_direction_change_columns(d) ==
    LET d1 == add_change_column(d, DirectionColumn, DirectionChange)
        d2 == add_normalised_column(d1, DirectionChange, TimeColumn, NormTimeRamps)
    IN  DropColumn(d2, DirectionChange)

direction_change_raises(d) ==
    normalised_raises(add_change_column(d, DirectionColumn, DirectionChange),
                      DirectionChange, TimeColumn)

calculate_and_add_columns(d, pressure_solvent_column) ==
    add_direction_change_columns(add_pressure_change_columns(d, pressure_solvent_column))

calculate_raises(d, pressure_solvent_column) ==
    \/ pressure_change_raises(d, pressure_solvent_column)
    \/ direction_change_raises(add_pressure_change_columns(d, pressure_solvent_column))

----------------------------------------------------------------------------
(* calculate_and_add_columns on every table of up to MaxCalcRows rows that *)
(* passes the availability check, with one more column in front of the     *)
(* needed ones, whose name may be one the transform uses itself.           *)

MaxCalcRows == 2

ExtraColumns ==
    {"Notes", PressureChange, DirectionChange, at_change(TimeColumn),
     at_change(MoistureColumn), new_name(NormTimeSteps), new_name(NormMoisture),
     new_name(NormTimeRamps)}

CalcTimeValues == {Num(1), Num(2), NaN, Str(9)}

CalcMoistureValues == {Num(3), NaN}

CalcDirectionValues == {Str(0), Str(1)}

CalcPressureValues == {Num(0), Num(10), NaN}

CalcTable(extra, pressure, x, t, m, r, p) ==
    [n |-> Len(t),
     columns |-> <<extra, TimeColumn, MoistureColumn, DirectionColumn, pressure>>,
     data |-> [c \in {extra, TimeColumn, MoistureColumn, DirectionColumn, pressure} |->
                  IF c = extra THEN x
                  ELSE IF c = TimeColumn THEN t
                  ELSE IF c = MoistureColumn THEN m
                  ELSE IF c = DirectionColumn THEN r ELSE p]]

CalcInit ==
    /\ \E n \in 1..MaxCalcRows, extra \in ExtraColumns, pressure \in {SolventA, SolventB} :
          \E t \in [1..n -> CalcTimeValues], m \in [1..n -> CalcMoistureValues],
             r \in [1..n -> CalcDirectionValues], p \in [1..n -> CalcPressureValues] :
              /\ df0 = CalcTable(extra, pressure, [i \in 1..n |-> Str(7)], t, m, r, p)
              /\ psc = pressure
    /\ check_for_needed_columns(df0, psc).ok
    /\ df = df0
    /\ pc = "calculate"
    /\ result = check_for_needed_columns(df0, psc)
    /\ BatchIdle

AddPressureChangeColumns ==
    /\ pc = "calculate"
    /\ ~pressure_change_raises(df, psc)
    /\ df' = add_pressure_change_columns(df, psc)
    /\ pc' = "pressure done"
    /\ UNCHANGED <<df0, psc, result, batchVars>>

AddDirectionChangeColumns ==
    /\ pc = "pressure done"
    /\ ~direction_change_raises(df)
    /\ df' = add_direction_change_columns(df)
    /\ pc' = "returned"
    /\ UNCHANGED <<df0, psc, result, batchVars>>

\* a text cell in a target column: the subtraction raises TypeError
CalculateRaises ==
    /\ \/ pc = "calculate" /\ pressure_change_raises(df, psc)
       \/ pc = "pressure done" /\ direction_change_raises(df)
    /\ pc' = "raised"
    /\ UNCHANGED <<df, df0, psc, result, batchVars>>

CalcNext == AddPressureChangeColumns \/ AddDirectionChangeColumns \/ CalculateRaises

SpecCalc == CalcInit /\ [][CalcNext]_vars

NewColumns == <<new_name(NormTimeSteps), new_name(NormMoisture), new_name(NormTimeRamps)>>

HelperColumns == {PressureChange, DirectionChange, at_change(TimeColumn), at_change(MoistureColumn)}

\* C10: the table calculate_and_add_columns returns carries every original
\* column with its values, the row order and the column order unchanged,
\* plus exactly the three added ' NEW' columns, and none of the helper
\* columns 'Pressure Change', 'Direction Change', '<target>_at_change'.
C10_Frame ==
    pc = "returned" =>
        /\ df.n = df0.n
        /\ df.columns = df0.columns \o NewColumns
        /\ \A i \in 1..Len(df0.columns) : df.data[df0.columns[i]] = df0.data[df0.columns[i]]
        /\ \A h \in HelperColumns : ~HasColumn(df, h)

\* the columns of table d whose names the transform writes or drops itself
Collisions(d) ==
    {d.columns[i] : i \in 1..Len(d.columns)}
        \cap (HelperColumns \cup {NewColumns[i] : i \in 1..Len(NewColumns)})

\* C10 holds of every table none of whose columns bears a helper or ' NEW' name
C10_FrameWithoutCollision ==
    (pc = "returned" /\ Collisions(df0) = {}) =>
        /\ df.n = df0.n
        /\ df.columns = df0.columns \o NewColumns
        /\ \A i \in 1..Len(df0.columns) : df.data[df0.columns[i]] = df0.data[df0.columns[i]]
        /\ \A h \in HelperColumns : ~HasColumn(df, h)
        /\ df = calculate_and_add_columns(df0, psc)

C10_FrameWitness ==
    /\ pc = "returned"
    /\ Collisions(df0) = {}
    /\ df0.n = 2
    /\ df.columns = <<"Notes", TimeColumn, MoistureColumn, DirectionColumn, SolventB>> \o NewColumns

----------------------------------------------------------------------------
(* process_spreadsheet *)

\* A sheet name is a sequence of pieces: the text "Sheet", other text, or a
\* run of digits.  re.match(r"^Sheet\d+$", sheet): "Sheet", then digits only.
IsDigits(piece) == piece \in {"1", "2", "3", "4", "12"}

\* mutant: the pattern without its closing $, "Sheet" and a digit at the start
default_sheet_name_unanchored(name) ==
    /\ Len(name) >= 2
    /\ name[1] = "Sheet"
    /\ IsDigits(name[2])

default_sheet_name(name) ==
    /\ Len(name) >= 2
    /\ name[1] = "Sheet"
    /\ \A i \in 2..Len(name) : IsDigits(name[i])

\* str.strip() of a column name: the names of the model that carry spaces
strip(c) ==
    IF c = " RH Direction " THEN DirectionColumn
    ELSE IF c = "Time [minutes] " THEN TimeColumn
    ELSE c

\* df.columns = df.columns.str.strip()
strip_columns(d) ==
    [d EXCEPT !.columns = [i \in 1..Len(d.columns) |-> strip(d.columns[i])],
              !.data = [c \in {strip(x) : x \in DOMAIN d.data} |->
                           d.data[CHOOSE x \in DOMAIN d.data : strip(x) = c]]]

\* pd.to_numeric(column, errors="ignore"): text that parses becomes a number
\* when every cell of the column is a number, parses as one or is missing;
\* otherwise the column is returned as it is
to_numeric(s) ==
    IF \A i \in 1..Len(s) : s[i].k \in {"num", "numstr", "nan"}
    THEN [i \in 1..Len(s) |-> IF s[i].k = "numstr" THEN Num(s[i].v) ELSE s[i]]
    ELSE s

\* df.apply(pd.to_numeric, errors="ignore")
apply_to_numeric(d) == [d EXCEPT !.data = [c \in DOMAIN d.data |-> to_numeric(d.data[c])]]

MaxSheets == 3

\* the table with the given column names and, for each, its cells
Table(names, cells) ==
    [n |-> Len(cells[1]), columns |-> names,
     data |-> [c \in {names[i] : i \in 1..Len(names)} |->
                  cells[CHOOSE i \in 1..Len(names) : names[i] = c]]]

\* the sheets a workbook of the model is made of
SheetTables ==
    {\* valid, Solvent A
     Table(<<TimeColumn, MoistureColumn, DirectionColumn, SolventA>>,
           <<<<Num(1), Num(2)>>, <<Num(3), NaN>>, <<Str(0), Str(1)>>, <<Num(0), Num(0)>>>>),
     \* valid once the names are stripped and the time text is parsed, Solvent B
     Table(<<"Time [minutes] ", MoistureColumn, " RH Direction ", SolventB>>,
           <<<<NumStr(1), NumStr(2)>>, <<Num(3), Num(3)>>, <<Str(0), Str(0)>>, <<Num(0), Num(10)>>>>),
     \* RH Direction is full of NaN
     Table(<<TimeColumn, MoistureColumn, DirectionColumn, SolventA>>,
           <<<<Num(1), Num(2)>>, <<Num(3), NaN>>, <<NaN, NaN>>, <<Num(0), Num(0)>>>>),
     \* neither solvent column
     Table(<<TimeColumn, MoistureColumn, DirectionColumn, "Notes">>,
           <<<<Num(1)>>, <<Num(3)>>, <<Str(0)>>, <<Str(7)>>>>),
     \* passes the check, but a time cell is text that is no number
     Table(<<TimeColumn, MoistureColumn, DirectionColumn, SolventA>>,
           <<<<Num(1), Str(9)>>, <<Num(3), Num(3)>>, <<Str(0), Str(0)>>, <<Num(0), Num(0)>>>>)}

SheetNames(i) == {<<"Sheet", i>>, <<"Sheet", i, "b">>, <<"Run", i>>}

Index == <<"1", "2", "3", "4">>

SheetInit ==
    /\ \E n \in 0..MaxSheets :
          \E names \in [1..n -> UNION {SheetNames(Index[i]) : i \in 1..n}],
             tables \in [1..n -> SheetTables] :
              /\ \A i \in 1..n : names[i] \in SheetNames(Index[i])
              /\ workbook = [i \in 1..n |-> [name |-> names[i], table |-> tables[i]]]
    /\ pos = 1
    /\ log = <<>>
    /\ dst = <<>>
    /\ saved = FALSE
    /\ df = EmptyDf(0)
    /\ df0 = EmptyDf(0)
    /\ psc = ""
    /\ result = NoResult
    /\ pc = "for sheet"
    /\ MaskIdle

\* lines 115-119: a sheet called Sheet<digits> is skipped
SkipDefaultName ==
    /\ pc = "for sheet"
    /\ pos <= Len(workbook)
    /\ default_sheet_name(workbook[pos].name)
    /\ log' = Append(log, [event |-> "Skipping", unit |-> pos])
    /\ pos' = pos + 1
    /\ UNCHANGED <<tableVars, pc, sheetVars, maskVars>>

\* lines 120-125: the sheet's column names are stripped and the solvent column resolved
BeginSheet ==
    /\ pc = "for sheet"
    /\ pos <= Len(workbook)
    /\ ~default_sheet_name(workbook[pos].name)
    /\ log' = Append(log, [event |-> "Processing", unit |-> pos])
    /\ df0' = workbook[pos].table
    /\ df' = strip_columns(workbook[pos].table)
    /\ psc' = solvent_a_or_b(df')
    /\ result' = NoResult
    /\ pc' = "check"
    /\ UNCHANGED <<pos, sheetVars, maskVars>>

\* line 127
CheckSheet ==
    /\ pc = "check"
    /\ result' = check_for_needed_columns(df, psc)
    /\ pc' = "checked"
    /\ UNCHANGED <<df, df0, psc, batchVars>>

\* lines 127-129
SkipSheet ==
    /\ pc = "checked"
    /\ ~result.ok
    /\ log' = Append(log, [event |-> "Skipping because of missing column", unit |-> pos])
    /\ pos' = pos + 1
    /\ pc' = "for sheet"
    /\ UNCHANGED <<tableVars, sheetVars, maskVars>>

\* lines 131-133
TransformSheet ==
    /\ pc = "checked"
    /\ result.ok
    /\ ~calculate_raises(apply_to_numeric(df), psc)
    /\ df' = calculate_and_add_columns(apply_to_numeric(df), psc)
    /\ dst' = Append(dst, [name |-> workbook[pos].name, table |-> df'])
    /\ pos' = pos + 1
    /\ pc' = "for sheet"
    /\ UNCHANGED <<df0, psc, result, log, workbook, saved, maskVars>>

\* line 132: the transform raises, nothing catches it
TransformRaises ==
    /\ pc = "checked"
    /\ result.ok
    /\ calculate_raises(apply_to_numeric(df), psc)
    /\ pc' = "TypeError"
    /\ UNCHANGED <<tableVars, batchVars>>

\* lines 135-136
CloseWorkbook ==
    /\ pc = "for sheet"
    /\ pos > Len(workbook)
    /\ saved' = (dst # <<>>)
    /\ pc' = "done"
    /\ UNCHANGED <<tableVars, pos, log, workbook, dst, maskVars>>

SheetNext ==
    \/ SkipDefaultName
    \/ BeginSheet
    \/ CheckSheet
    \/ SkipSheet
    \/ TransformSheet
    \/ TransformRaises
    \/ CloseWorkbook

SpecSheet == SheetInit /\ [][SheetNext]_vars

\* the sheet's table with its column names stripped by hand
Stripped(sheet, c) ==
    IF c = TimeColumn /\ "Time [minutes] " \in DOMAIN sheet.table.data THEN "Time [minutes] "
    ELSE IF c = DirectionColumn /\ " RH Direction " \in DOMAIN sheet.table.data THEN " RH Direction "
    ELSE c

\* the sheet holds column c (up to surrounding spaces) with a non-missing value
SheetUsable(sheet, c) ==
    /\ Stripped(sheet, c) \in DOMAIN sheet.table.data
    /\ \E i \in 1..sheet.table.n : sheet.table.data[Stripped(sheet, c)][i].k # "nan"

\* the sheet passes the availability check, as C4 describes it
SheetValid(sheet) ==
    /\ SheetUsable(sheet, TimeColumn)
    /\ SheetUsable(sheet, MoistureColumn)
    /\ SheetUsable(sheet, DirectionColumn)
    /\ IF SolventA \in DOMAIN sheet.table.data THEN SheetUsable(sheet, SolventA)
       ELSE SheetUsable(sheet, SolventB)

Written(i) == \E j \in 1..Len(dst) : dst[j].name = workbook[i].name

NamedLikeSheetN(sheet) == sheet.name[1] = "Sheet" /\ sheet.name[Len(sheet.name)] # "b"

C5_SkipStep ==
    (pc = "checked" /\ ~result.ok) =>
        (pc' = "for sheet" /\ pos' = pos + 1 /\ dst' = dst /\ saved' = saved)

\* a sheet is transformed and written only in the step after its check, which it passed
C5_WriteStep ==
    dst' # dst =>
        /\ pc = "checked" /\ result.ok /\ SheetValid(workbook[pos])
        /\ Len(dst') = Len(dst) + 1
        /\ dst'[Len(dst')].name = workbook[pos].name

----------------------------------------------------------------------------
(* mask_area.py: file names, areas and diameters *)

\* A file name is a sequence of pieces: text without "_mask" in it, the text
\* "_mask", or a maximal run of digits (s its text, d its digits).
Txt(s) == [t |-> "txt", s |-> s, d |-> <<>>]

MaskPiece == [t |-> "mask", s |-> "_mask", d |-> <<>>]

Digits(s, d) == [t |-> "digits", s |-> s, d |-> d]

RECURSIVE Join(_)
Join(pieces) == IF pieces = <<>> THEN "" ELSE pieces[1].s \o Join(Tail(pieces))

Max(S) == CHOOSE x \in S : \A y \in S : y <= x

\* re.findall(r"(.+)_mask([0-9]+)", image.name): the first match, if any.
\* (.+) is greedy: it runs up to the last "_mask" that digits follow, and
\* needs at least one character in front of it.
findall(name) ==
    LET at == {i \in 2..(Len(name) - 1) : name[i].t = "mask" /\ name[i + 1].t = "digits"}
    IN  IF at = {} THEN <<>>
        ELSE <<[grid |-> Join(SubSeq(name, 1, Max(at) - 1)), mask |-> name[Max(at) + 1].d]>>

\* int(mask) of a run of decimal digits
RECURSIVE int(_)
int(d) == IF d = <<>> THEN 0 ELSE 10 * int(SubSeq(d, 1, Len(d) - 1)) + d[Len(d)]

\* mutant: only mask 0 is left out
not_mask_0(mask) == mask # 0

\* mask not in [0, 1]
not_in_0_1(mask) == mask \notin {0, 1}

\* area_of_pixel, in units of 1e-10 mm^2
AreaOfPixel == 492843

\* the area of num_of_pixels white pixels, in units of 1e-10 (areas are exact
\* multiples here; the program rounds them to doubles)
get_mask_area(num_of_pixels) == (AreaOfPixel * num_of_pixels) * 1000

\* math.pi as the fraction PiNum / PiDen
PiNum == 355

PiDen == 113

\* one step of the binary square root: bit b joins root r when the square stays within x
SqrtStep(r, b, x) == IF (r + b) * (r + b) <= x THEN r + b ELSE r

\* math.sqrt, rounded down to an integer (x < 2^20)
sqrt(x) ==
    LET r9 == SqrtStep(0, 512, x)
        r8 == SqrtStep(r9, 256, x)
        r7 == SqrtStep(r8, 128, x)
        r6 == SqrtStep(r7, 64, x)
        r5 == SqrtStep(r6, 32, x)
        r4 == SqrtStep(r5, 16, x)
        r3 == SqrtStep(r4, 8, x)
        r2 == SqrtStep(r3, 4, x)
        r1 == SqrtStep(r2, 2, x)
    IN  SqrtStep(r1, 1, x)

\* 2 * sqrt(area / pi): the area in units of 1e-6, the diameter in units of
\* 1e-3, rounded down
get_diameter_from_area(area) == 2 * sqrt(((area \div 10000) * PiDen) \div PiNum)

----------------------------------------------------------------------------
(* update_and_save_dataframe *)

\* the order of Python strings on the grid labels of the model
GridRank(grid) == IF grid = "a1" THEN 1 ELSE IF grid = "a1_mask1" THEN 2 ELSE 3

\* row a sorts before row b (-1), after it (1) or ties with it (0) under sort_by
RECURSIVE Compare(_, _, _)
Compare(a, b, sort_by) ==
    IF sort_by = <<>> THEN 0
    ELSE LET ka == IF sort_by[1] = "Grid" THEN GridRank(a.Grid) ELSE a.Area
             kb == IF sort_by[1] = "Grid" THEN GridRank(b.Grid) ELSE b.Area
         IN  IF ka < kb THEN -1 ELSE IF ka > kb THEN 1 ELSE Compare(a, b, Tail(sort_by))

\* the row orders images_df.sort_values(by=sort_by) may return: sorted by the
\* keys; several keys are sorted by a stable lexsort, one key by quicksort,
\* which may put tied rows in any order
sort_values(rows, sort_by) ==
    {p \in Permutations(1..Len(rows)) :
        \A i, j \in 1..Len(rows) : i < j =>
            \/ Compare(rows[p[i]], rows[p[j]], sort_by) < 0
            \/ /\ Compare(rows[p[i]], rows[p[j]], sort_by) = 0
               /\ Len(sort_by) > 1 => p[i] < p[j]}

\* Series.value_counts(): each value with the number of rows holding it
value_counts(s) ==
    [x \in {s[i] : i \in 1..Len(s)} |-> Cardinality({i \in 1..Len(s) : s[i] = x})]

RECURSIVE SumTo(_, _)
SumTo(s, k) == IF k = 0 THEN 0 ELSE SumTo(s, k - 1) + s[k]

\* mutant: the running number of rows instead of the running sum
running_count(s) == [k \in 1..Len(s) |-> k]

\* Series.cumsum() of a series of numbers
cumsum_int(s) == [k \in 1..Len(s) |-> SumTo(s, k)]

\* a column of the table, as the sequence of its values
column(s) == s \o <<>>

\* the rows written to output_csv when sort_values returned the order p
update_and_save_dataframe(images_df, p, calculate_percent) ==
    LET n == Len(images_df)
        sorted == column([k \in 1..n |-> images_df[p[k]]])
        Diameter == column([k \in 1..n |-> get_diameter_from_area(sorted[k].Area)])
        counts == value_counts(Diameter)
        Freq == column([k \in 1..n |-> counts[Diameter[k]]])
        Cumulative == column(cumsum_int(Freq))
    IN  [k \in 1..n |->
            [Grid |-> sorted[k].Grid, Mask |-> sorted[k].Mask, Area |-> sorted[k].Area,
             Diameter |-> Diameter[k], Freq |-> Freq[k], Cumulative_Freq |-> Cumulative[k],
             \* ((index + 1) / len) * 100, as a fraction; 0/0 without the column
             Percentage_of_Particle |->
                 IF calculate_percent THEN [num |-> k * 100, den |-> n]
                 ELSE [num |-> 0, den |-> 0]]]

----------------------------------------------------------------------------
(* create_csvs *)

MaxSubdirs == 2

MaxImages == 3

PixelCounts == {1, 2}

a1_mask2 == <<Txt("a1"), MaskPiece, Digits("2", <<2>>), Txt(".jpg")>>

b2_mask10 == <<Txt("b2"), MaskPiece, Digits("10", <<1, 0>>), Txt(".jpg")>>

a1_mask0 == <<Txt("a1"), MaskPiece, Digits("0", <<0>>), Txt(".jpg")>>

b2_mask01 == <<Txt("b2"), MaskPiece, Digits("01", <<0, 1>>), Txt(".jpg")>>

a1_mask1_mask3 ==
    <<Txt("a1"), MaskPiece, Digits("1", <<1>>), MaskPiece, Digits("3", <<3>>), Txt(".jpg")>>

a1mask2 == <<Txt("a1mask"), Digits("2", <<2>>), Txt(".jpg")>>

\* the images a subdirectory may hold: a file name and its number of white pixels
Images ==
    {[name |-> a1_mask2, pixels |-> n] : n \in PixelCounts}
        \cup {[name |-> f, pixels |-> 1] :
                 f \in {b2_mask10, a1_mask0, b2_mask01, a1_mask1_mask3, a1mask2}}

MaskInit ==
    /\ force_update \in BOOLEAN
    /\ pos = 0
    /\ log = <<>>
    /\ sub = NoSub
    /\ img = 0
    /\ data = <<>>
    /\ out = NoOut
    /\ pc = "for subdirectory"
    /\ df = EmptyDf(0) /\ df0 = EmptyDf(0) /\ psc = "" /\ result = NoResult
    /\ SheetIdle

grid_csv_exists == sub.grid_is_file /\ ~force_update

full_sort_csv_exists == sub.full_is_file /\ ~force_update

\* lines 142-160: both CSVs exist, the subdirectory is skipped
SkipSubdirectory ==
    /\ pc = "for subdirectory"
    /\ pos < MaxSubdirs
    /\ ~force_update
    /\ pos' = pos + 1
    /\ sub' = [grid_is_file |-> TRUE, full_is_file |-> TRUE, has_images |-> FALSE,
               image_paths |-> <<>>]
    /\ log' = Append(log, [event |-> "Skipping subdirectory", unit |-> pos'])
    /\ img' = 0 /\ data' = <<>> /\ out' = NoOut
    /\ UNCHANGED <<tableVars, pc, sheetVars, force_update>>

\* lines 142-172: at most one CSV counts as existing; it is logged as skipped
\* and the images of the subdirectory are listed (the listing is revealed
\* image by image as the loop reaches them)
BeginSubdirectory ==
    /\ pc = "for subdirectory"
    /\ pos < MaxSubdirs
    /\ pos' = pos + 1
    /\ \E g, f, nonempty \in BOOLEAN :
          /\ ~((g /\ ~force_update) /\ (f /\ ~force_update))
          /\ sub' = [grid_is_file |-> g, full_is_file |-> f, has_images |-> nonempty,
                     image_paths |-> <<>>]
    /\ log' = IF sub'.grid_is_file /\ ~force_update
              THEN Append(log, [event |-> "Skipping grid csv", unit |-> pos'])
              ELSE IF sub'.full_is_file /\ ~force_update
                   THEN Append(log, [event |-> "Skipping full_sort csv", unit |-> pos'])
                   ELSE log
    /\ img' = 0 /\ data' = <<>> /\ out' = NoOut
    /\ pc' = IF sub'.has_images THEN "for image" ELSE "for subdirectory"
    /\ UNCHANGED <<tableVars, sheetVars, force_update>>

\* lines 173-181: one image
ScanImage ==
    /\ pc = "for image"
    /\ img < MaxImages
    /\ \E image \in Images :
          LET matches == findall(image.name)
          IN  /\ matches # <<>>
              /\ sub' = [sub EXCEPT !.image_paths = Append(@, image)]
              /\ data' = IF not_in_0_1(int(matches[1].mask))
                         THEN Append(data, [Grid |-> matches[1].grid,
                                            Mask |-> int(matches[1].mask),
                                            Area |-> get_mask_area(image.pixels)])
                         ELSE data
    /\ img' = img + 1
    /\ UNCHANGED <<tableVars, pc, pos, log, sheetVars, force_update, out>>

\* line 176: matches[0] of no match raises IndexError
ScanRaises ==
    /\ pc = "for image"
    /\ img < MaxImages
    /\ \E image \in Images :
          /\ findall(image.name) = <<>>
          /\ sub' = [sub EXCEPT !.image_paths = Append(@, image)]
    /\ pc' = "IndexError"
    /\ UNCHANGED <<tableVars, pos, log, sheetVars, force_update, img, data, out>>

\* lines 183-196: the CSVs that do not count as existing are written
SaveCsvs ==
    /\ pc = "for image"
    /\ img >= 1
    /\ data # <<>>
    /\ \E grid \in IF grid_csv_exists THEN {<<>>}
                    ELSE {update_and_save_dataframe(data, p, FALSE) :
                             p \in sort_values(data, <<"Grid", "Area">>)} :
          \E full \in IF full_sort_csv_exists THEN {<<>>}
                       ELSE {update_and_save_dataframe(data, p, TRUE) :
                                p \in sort_values(data, <<"Area">>)} :
              out' = [grid |-> grid, full |-> full]
    /\ pc' = "for subdirectory"
    /\ UNCHANGED <<tableVars, pos, log, sheetVars, force_update, sub, img, data>>

\* lines 183-185, 99: pd.DataFrame([]) has no columns, sort_values raises KeyError
SaveRaises ==
    /\ pc = "for image"
    /\ img >= 1
    /\ data = <<>>
    /\ pc' = "KeyError"
    /\ UNCHANGED <<tableVars, batchVars>>

\* line 197
CloseLog ==
    /\ pc = "for subdirectory"
    /\ pc' = "done"
    /\ UNCHANGED <<tableVars, batchVars>>

MaskNext ==
    \/ SkipSubdirectory
    \/ BeginSubdirectory
    \/ ScanImage
    \/ ScanRaises
    \/ SaveCsvs
    \/ SaveRaises
    \/ CloseLog

SpecMask == MaskInit /\ [][MaskNext]_vars

----------------------------------------------------------------------------
(* Properties of create_csvs (SpecMask) *)

\* the decimal value of the digit texts of the model's file names
DecimalValue(text) ==
    CASE text = "0" -> 0
      [] text = "1" -> 1
      [] text = "01" -> 1
      [] text = "2" -> 2
      [] text = "3" -> 3
      [] text = "10" -> 10

\* the file name matches <grid>_mask<integer>
Matches(name) ==
    \E i \in 2..(Len(name) - 1) : name[i].t = "mask" /\ name[i + 1].t = "digits"

\* the digits after the last "_mask" of a matching name
MaskText(name) ==
    name[1 + Max({i \in 2..(Len(name) - 1) : name[i].t = "mask" /\ name[i + 1].t = "digits"})].s

\* the text in front of the last "_mask<digits>" of a matching name
GridText(name) ==
    Join(SubSeq(name, 1,
                Max({i \in 2..(Len(name) - 1) : name[i].t = "mask" /\ name[i + 1].t = "digits"}) - 1))

IsMeasured(image) == Matches(image.name) /\ DecimalValue(MaskText(image.name)) \notin {0, 1}

\* C8: while a subdirectory is scanned, no record exists for an image whose
\* mask index is 0 or 1, and the records are, in scan order, one for every
\* other image scanned whose name matches <grid>_mask<integer>, holding its
\* grid label, its mask index and its area.
C8_Records ==
    LET measured == SelectSeq(sub.image_paths, IsMeasured)
    IN  /\ \A j \in 1..Len(data) : data[j].Mask \notin {0, 1}
        /\ Len(data) = Len(measured)
        /\ \A j \in 1..Len(data) :
              /\ data[j].Grid = GridText(measured[j].name)
              /\ data[j].Mask = DecimalValue(MaskText(measured[j].name))
              /\ data[j].Area = measured[j].pixels * AreaOfPixel * 1000

\* a1_mask0, b2_mask10, b2_mask01 scanned: one record, for b2 mask 10
C8_Witness ==
    /\ pc = "for image"
    /\ img = 3
    /\ [i \in 1..3 |-> sub.image_paths[i].name] = <<a1_mask0, b2_mask10, b2_mask01>>
    /\ data = <<[Grid |-> "b2", Mask |-> 10, Area |-> 492843000]>>

\* the table t is sorted by Area, or by Grid and then Area
SortedBy(t, with_grid) ==
    \A k \in 2..Len(t) :
        IF with_grid
        THEN \/ GridRank(t[k - 1].Grid) < GridRank(t[k].Grid)
             \/ t[k - 1].Grid = t[k].Grid /\ t[k - 1].Area <= t[k].Area
        ELSE t[k - 1].Area <= t[k].Area

C7_Table(t, with_grid) ==
    t # <<>> =>
        /\ Len(t) = Len(data)
        /\ \A r \in {data[i] : i \in 1..Len(data)} :
              Cardinality({i \in 1..Len(data) : data[i] = r})
                = Cardinality({k \in 1..Len(t) :
                      [Grid |-> t[k].Grid, Mask |-> t[k].Mask, Area |-> t[k].Area] = r})
        /\ SortedBy(t, with_grid)
        /\ \A k \in 1..Len(t) :
              /\ t[k].Freq = Cardinality({j \in 1..Len(t) : t[j].Diameter = t[k].Diameter})
              /\ t[k].Cumulative_Freq =
                    (IF k = 1 THEN 0 ELSE t[k - 1].Cumulative_Freq) + t[k].Freq

\* C7: in every CSV written, each row's Freq is the number of rows of the
\* table with the same Diameter, and Cumulative Freq at sorted position k is
\* the sum of the Freq values of positions 0..k, tied diameters counted again
\* at every row.
C7_Freq == C7_Table(out.grid, TRUE) /\ C7_Table(out.full, FALSE)

\* areas c, c, 2c sorted by Area: Freq 2,2,1 and Cumulative Freq 2,4,5
C7_Witness ==
    /\ Len(out.full) = 3
    /\ out.full[1].Area = out.full[2].Area /\ out.full[3].Area = 2 * out.full[1].Area
    /\ [k \in 1..3 |-> out.full[k].Freq] = <<2, 2, 1>>
    /\ [k \in 1..3 |-> out.full[k].Cumulative_Freq] = <<2, 4, 5>>

\* the subdirectory at pos has been dealt with
Handled == pos > 0 /\ pc \in {"for subdirectory", "done", "KeyError"}

Logged(event) == \E i \in 1..Len(log) : log[i] = [event |-> event, unit |-> pos]

\* C9: without force_update a CSV that exists is never rewritten and its skip
\* is logged, a CSV that does not exist is generated when the subdirectory
\* holds images, and a subdirectory whose two CSVs exist is skipped entirely;
\* with force_update both CSVs are generated and nothing is logged.
C9_AsStated ==
    Handled =>
        IF force_update
        THEN /\ log = <<>>
             /\ sub.has_images => out.grid # <<>> /\ out.full # <<>>
        ELSE /\ sub.grid_is_file => out.grid = <<>>
             /\ sub.full_is_file => out.full = <<>>
             /\ (sub.grid_is_file /\ sub.full_is_file) =>
                   Logged("Skipping subdirectory") /\ img = 0 /\ data = <<>>
             /\ (sub.grid_is_file /\ ~sub.full_is_file) => Logged("Skipping grid csv")
             /\ (sub.full_is_file /\ ~sub.grid_is_file) => Logged("Skipping full_sort csv")
             /\ (sub.has_images /\ ~sub.grid_is_file) => out.grid # <<>>
             /\ (sub.has_images /\ ~sub.full_is_file) => out.full # <<>>

\* C9 holds of every subdirectory that yields at least one record
C9_WhenRecords ==
    (Handled /\ pc # "KeyError") =>
        IF force_update
        THEN /\ log = <<>>
             /\ sub.has_images => out.grid # <<>> /\ out.full # <<>>
        ELSE /\ sub.grid_is_file => out.grid = <<>>
             /\ sub.full_is_file => out.full = <<>>
             /\ (sub.grid_is_file /\ sub.full_is_file) =>
                   Logged("Skipping subdirectory") /\ img = 0 /\ data = <<>>
             /\ (sub.grid_is_file /\ ~sub.full_is_file) => Logged("Skipping grid csv")
             /\ (sub.full_is_file /\ ~sub.grid_is_file) => Logged("Skipping full_sort csv")
             /\ (sub.has_images /\ ~sub.grid_is_file) => out.grid # <<>>
             /\ (sub.has_images /\ ~sub.full_is_file) => out.full # <<>>

====
